---------------------------- MODULE Spec2Model ----------------------------
(***************************************************************************)
(* Chat experiments of desert-survival-streamlit: the task-completion      *)
(* detectors (ranked-list parser, unordered-mention parser, shortlist      *)
(* detector) and the session logic of the step-wise, LLM-backed and        *)
(* shortlist variants.                                                     *)
(*                                                                         *)
(* A text is a sequence of characters; a character is a one-element name.  *)
(* ASCII characters stand for themselves.  The other characters are named  *)
(* in ASCII (pinyin, with a digit where two characters share a reading):   *)
(*   da huo ji      U+6253 U+706B U+673A     (lighter)                     *)
(*   ya suo bing gan U+538B U+7F29 U+997C U+5E72 (compressed biscuit)      *)
(*   dan shui       U+6DE1 U+6C34           (fresh water / water)          *)
(*   xin hao jing zi U+4FE1 U+53F7 U+955C U+5B50 (signal mirror / mirror)  *)
(*   sha yu qu gan3 ji4 U+9CA8 U+9C7C U+9A71 U+8D76 U+5242 (shark repel.)  *)
(*   ni long sheng  U+5C3C U+9F99 U+7EF3     (nylon rope)                  *)
(*   su liao4 bu jiao bo mo U+5851 U+6599 U+5E03 U+80F6 U+8584 U+819C      *)
(*   bi shou xiao dao U+5315 U+9996 U+5C0F U+5200 (dagger / knife)         *)
(*   ji2 jiu bao yi yao liao2 U+6025 U+6551 U+5305 U+533B U+836F U+7597    *)
(*   yu2 wang bu3   U+6E14 U+7F51 U+6355     (fishing net)                 *)
(*   c1 .. c10      U+2460 .. U+2469         (circled numerals)            *)
(*   fcomma U+FF0C, dun U+3001, fstop U+3002, fsemi U+FF1B, frparen U+FF09 *)
(*   lbrk U+3010, rbrk U+3011, emdash U+2014                               *)
(*   x              any letter that is no separator and in no alias        *)
(***************************************************************************)
EXTENDS Integers, Sequences, FiniteSets, TLC

VARIABLES
  \* --- a detector call: its input and what it returned ---
  input,       \* the text handed to the detector
  segs,        \* how the text was written: one record per segment
  layout,      \* the way the entries of the text are laid out
  rot,         \* the rotation of the item order the text (or the user) follows
  deviated,    \* whether the text (or the user) already left the regular order
  user_flag,   \* the by_user argument of the call
  pc,          \* "build" while the text is written, "done" once the detector ran
  verdict,     \* what the parsers and the detector returned
  \* --- a chat session (st.session_state and its collaborators) ---
  app,               \* which variant runs
  messages,          \* st.session_state.messages
  log,               \* the rows log_message inserted into chat_logs
  stage,             \* st.session_state.stage (step-wise variants)
  matched_items,     \* st.session_state.matched_items / chosen
  time_up,           \* st.session_state.time_up (assistant step-wise variant)
  elapsed,           \* seconds since the session started
  finished,          \* st.session_state["finished"]
  finished_reason,   \* st.session_state["finished_reason"]
  pending_selection, \* st.session_state["pending_selection"] (<< >> when absent)
  calls,             \* number of client.chat.completions.create calls made
  turns,             \* number of user messages the script accepted
  api_key,           \* bool(ds_api_key): whether the secrets hold a key
  last               \* what became of the latest submission or button press

detectorVars == <<input, segs, layout, rot, deviated, user_flag, pc, verdict>>
sessionVars  == <<app, messages, log, stage, matched_items, time_up, elapsed,
                  finished, finished_reason, pending_selection, calls, turns,
                  api_key, last>>
vars == <<detectorVars, sessionVars>>

NoneVal == "None"

\* the outcome of a call that raises ValueError instead of returning
ValueError == "ValueError"

\* the values a bool-returning call returns
PyTrue == "True"
PyFalse == "False"

\* ------------------------------------------------------------------------
\* Item alias table and character classes
\* ------------------------------------------------------------------------

ITEM_ALIASES ==
  << [key |-> "dahuoji",      aliases |-> << <<"da","huo","ji">> >>],
     [key |-> "yasuobinggan", aliases |-> << <<"ya","suo","bing","gan">>, <<"bing","gan">> >>],
     [key |-> "danshui",      aliases |-> << <<"dan","shui">>, <<"shui">> >>],
     [key |-> "xinhaojing",   aliases |-> << <<"xin","hao","jing">>, <<"jing","zi">> >>],
     [key |-> "shayuquganji", aliases |-> << <<"sha","yu","qu","gan3","ji4">>,
                                             <<"qu","sha","ji4">>, <<"qu","sha">> >>],
     [key |-> "nilongsheng",  aliases |-> << <<"ni","long","sheng">>, <<"sheng","zi">>, <<"sheng">> >>],
     [key |-> "suliaobu",     aliases |-> << <<"su","liao4","bu">>, <<"su","jiao","bu">>,
                                             <<"su","liao4","bo","mo">> >>],
     [key |-> "bishou",       aliases |-> << <<"bi","shou">>, <<"xiao","dao">>, <<"dao">> >>],
     [key |-> "jijiubao",     aliases |-> << <<"ji2","jiu","bao">>, <<"yi","yao","bao">>,
                                             <<"yi","liao2","bao">> >>],
     [key |-> "yuwang",       aliases |-> << <<"yu2","wang">>, <<"bu3","yu","wang">>, <<"wang">> >> ] >>

CIRCLED ==
  [c \in {"c1","c2","c3","c4","c5","c6","c7","c8","c9","c10"} |->
     CASE c = "c1" -> 1 [] c = "c2" -> 2 [] c = "c3" -> 3 [] c = "c4" -> 4
       [] c = "c5" -> 5 [] c = "c6" -> 6 [] c = "c7" -> 7 [] c = "c8" -> 8
       [] c = "c9" -> 9 [] c = "c10" -> 10]

SEPS ==
  {" ", "fcomma", ",", "dun", "\n", "\r", "\t", "fstop", "fsemi", ";", ":",
   "(", ")", "[", "]", "lbrk", "rbrk", "<", ">", "-", "emdash", "*", "_"}

\* \s of the regular expressions
Whitespace == {" ", "\t", "\n", "\r"}

\* [\.、:）\)] of pattern_line and pattern_inline
MarkerDelims == {".", "dun", ":", "frparen", ")"}

\* [^，,、\n] of pattern_inline: the characters that end an inline phrase
InlineStops == {"fcomma", ",", "dun", "\n"}

\* int(num_raw) for num_raw in [1-9]
DigitValue ==
  [c \in {"1","2","3","4","5","6","7","8","9"} |->
     CASE c = "1" -> 1 [] c = "2" -> 2 [] c = "3" -> 3 [] c = "4" -> 4
       [] c = "5" -> 5 [] c = "6" -> 6 [] c = "7" -> 7 [] c = "8" -> 8
       [] c = "9" -> 9]

\* ------------------------------------------------------------------------
\* String helpers (Python str operations)
\* ------------------------------------------------------------------------

\* s[i:j] with 1-based inclusive-exclusive positions i..j-1
Slice(s, i, j) == IF j <= i THEN << >> ELSE SubSeq(s, i, j - 1)

\* a occurs in s starting at position p
MatchesAt(s, p, a) ==
  /\ p >= 1
  /\ p + Len(a) - 1 <= Len(s)
  /\ \A k \in 1..Len(a) : s[p + k - 1] = a[k]

\* `a in token`
Contains(token, a) == \E p \in 1..(Len(token) - Len(a) + 1) : MatchesAt(token, p, a)

\* Variant of Strip that removes nothing: C17 depends on the strip() of the
\* step-wise handlers.
NoStrip(s) == s

RECURSIVE LStrip(_)
LStrip(s) == IF s # << >> /\ Head(s) \in Whitespace THEN LStrip(Tail(s)) ELSE s

RECURSIVE RStrip(_)
RStrip(s) ==
  IF s # << >> /\ s[Len(s)] \in Whitespace THEN RStrip(SubSeq(s, 1, Len(s) - 1)) ELSE s

\* str.strip()
Strip(s) == RStrip(LStrip(s))

\* first position q >= p whose character is not in cls (Len(s)+1 if none)
RECURSIVE SkipWhile(_, _, _)
SkipWhile(s, p, cls) ==
  IF p <= Len(s) /\ s[p] \in cls THEN SkipWhile(s, p + 1, cls) ELSE p

\* first position q >= p whose character is in cls (Len(s)+1 if none)
RECURSIVE FindStop(_, _, _)
FindStop(s, p, cls) ==
  IF p <= Len(s) /\ s[p] \notin cls THEN FindStop(s, p + 1, cls) ELSE p


\* ------------------------------------------------------------------------
\* Ranked-list parser
\* ------------------------------------------------------------------------

\* any(a in token for a in aliases)
AnyAliasIn(token, aliases) == \E j \in 1..Len(aliases) : Contains(token, aliases[j])

\* the first key of ITEM_ALIASES, from index i on, one of whose aliases is in token
RECURSIVE FirstKeyFrom(_, _)
FirstKeyFrom(token, i) ==
  IF i > Len(ITEM_ALIASES) THEN NoneVal
  ELSE IF AnyAliasIn(token, ITEM_ALIASES[i].aliases) THEN ITEM_ALIASES[i].key
  ELSE FirstKeyFrom(token, i + 1)

_normalize_item(token) == FirstKeyFrom(Strip(token), 1)

NoMatch == [ok |-> FALSE]

\* The numeral alternatives ((?:10|[1-9])|[c1..c10]) at position q, in the
\* order the regular expression tries them: <<num_raw, position after>>
\* Variant of NumeralOptions that knows no two-digit numeral: C2 depends on
\* the "10" alternative of the numeral group.
NumeralOptionsOneDigit(s, q) ==
  IF q > Len(s) THEN << >>
  ELSE IF s[q] \in DOMAIN DigitValue \/ s[q] \in DOMAIN CIRCLED
         THEN << << <<s[q]>>, q + 1>> >>
  ELSE << >>

NumeralOptions(s, q) ==
  IF q > Len(s) THEN << >>
  ELSE IF s[q] = "1" /\ q + 1 <= Len(s) /\ s[q + 1] = "0"
         THEN << << <<"1", "0">>, q + 2>>, << <<"1">>, q + 1>> >>
  ELSE IF s[q] \in DOMAIN DigitValue \/ s[q] \in DOMAIN CIRCLED
         THEN << << <<s[q]>>, q + 1>> >>
  ELSE << >>

\* \s*(body+) from position d, body over the characters not in stops: \s* is
\* greedy and gives characters back until the body can start.  The start of
\* the body, or 0 when there is none.
RECURSIVE BodyStartDown(_, _, _, _)
BodyStartDown(s, t, d, stops) ==
  IF t < d THEN 0
  ELSE IF t <= Len(s) /\ s[t] \notin stops THEN t
  ELSE BodyStartDown(s, t - 1, d, stops)

BodyStart(s, d, stops) == BodyStartDown(s, SkipWhile(s, d, Whitespace), d, stops)

\* The rest of a match once the numeral is read: delimiter positions
\* `ds` (in the order tried), then the body.
RECURSIVE TryDelims(_, _, _, _)
TryDelims(s, raw, ds, stops) ==
  IF ds = << >> THEN NoMatch
  ELSE LET t == BodyStart(s, Head(ds), stops)
       IN  IF t # 0
             THEN LET e == FindStop(s, t, stops)
                  IN  [ok |-> TRUE, raw |-> raw, body |-> Slice(s, t, e), end |-> e]
             ELSE TryDelims(s, raw, Tail(ds), stops)

\* [\.、:）\)]? : with the delimiter first, then without it
OptionalDelim(s, r) ==
  IF r <= Len(s) /\ s[r] \in MarkerDelims THEN <<r + 1, r>> ELSE <<r>>

\* [\.、:）\)] : the delimiter is required
RequiredDelim(s, r) ==
  IF r <= Len(s) /\ s[r] \in MarkerDelims THEN <<r + 1>> ELSE << >>

RECURSIVE TryNumerals(_, _, _, _)
TryNumerals(s, opts, optional, stops) ==
  IF opts = << >> THEN NoMatch
  ELSE LET raw == Head(opts)[1]
           r   == Head(opts)[2]
           m   == TryDelims(s, raw,
                            IF optional THEN OptionalDelim(s, r) ELSE RequiredDelim(s, r),
                            stops)
       IN  IF m.ok THEN m ELSE TryNumerals(s, Tail(opts), optional, stops)

\* pattern_line (re.M) tried at position p:
\*   ^\s*((?:10|[1-9])|[c1..c10])[\.、:）\)]?\s*([^\n]+)$
PatternLineAt(s, p) ==
  IF ~(p = 1 \/ s[p - 1] = "\n") THEN NoMatch
  ELSE TryNumerals(s, NumeralOptions(s, SkipWhile(s, p, Whitespace)), TRUE, {"\n"})

\* pattern_inline tried at position p:
\*   (?:^|\s)((?:10|[1-9])|[c1..c10])[\.、:）\)]\s*([^，,、\n]+)
PatternInlineAt(s, p) ==
  LET viaStart == IF p = 1
                    THEN TryNumerals(s, NumeralOptions(s, p), FALSE, InlineStops)
                    ELSE NoMatch
  IN  IF viaStart.ok THEN viaStart
      ELSE IF p <= Len(s) /\ s[p] \in Whitespace
             THEN TryNumerals(s, NumeralOptions(s, p + 1), FALSE, InlineStops)
             ELSE NoMatch

\* pattern_line.finditer(s): the (num_raw, body) pairs of the successive
\* non-overlapping matches, scanning from position p
RECURSIVE LineItems(_, _)
LineItems(s, p) ==
  IF p > Len(s) THEN << >>
  ELSE LET m == PatternLineAt(s, p)
       IN  IF m.ok THEN << <<m.raw, m.body>> >> \o LineItems(s, m.end)
           ELSE LineItems(s, p + 1)

\* pattern_inline.findall(s)
RECURSIVE InlineItems(_, _)
InlineItems(s, p) ==
  IF p > Len(s) THEN << >>
  ELSE LET m == PatternInlineAt(s, p)
       IN  IF m.ok THEN << <<m.raw, m.body>> >> \o InlineItems(s, m.end)
           ELSE InlineItems(s, p + 1)

\* int(num_raw) raises ValueError: a circled numeral is no decimal literal
IntRaises(raw) == raw # <<"1", "0">> /\ raw[1] \notin DOMAIN DigitValue

\* int(num_raw) when it returns
PyInt(raw) == IF raw = <<"1", "0">> THEN 10 ELSE DigitValue[raw[1]]

\* CIRCLED.get(num_raw, int(num_raw)): the default int(num_raw) is evaluated
\* before the lookup, so the call raises whenever int(num_raw) does
MarkerRaises(raw) == IntRaises(raw)

MarkerNumber(raw) ==
  IF Len(raw) = 1 /\ raw[1] \in DOMAIN CIRCLED THEN CIRCLED[raw[1]] ELSE PyInt(raw)

\* the (num_raw, body) matches of both patterns, in the order they are read
RankedMatches(text) == LineItems(text, 1) \o InlineItems(text, 1)

\* the (num, body) list `items` of _parse_ranked_items (when no marker raises)
RankedPairs(found) ==
  [i \in 1..Len(found) |-> <<MarkerNumber(found[i][1]), found[i][2]>>]

\* Variant of ResolvedPairs that keeps every pair: C21 depends on the
\* `if norm` test.
ResolvedPairsKeepingAll(items) ==
  {<<items[i][1], _normalize_item(items[i][2])>> : i \in 1..Len(items)}

\* keeps the pairs whose body resolves: <<num, key>>
ResolvedPairs(items) ==
  LET norm == [i \in 1..Len(items) |-> _normalize_item(items[i][2])]
  IN  {<<items[i][1], norm[i]>> : i \in {j \in 1..Len(items) : norm[j] # NoneVal}}

\* raised = TRUE stands for the call ending in ValueError (nothing is returned)
_parse_ranked_items(text) ==
  IF text = << >> THEN [raised |-> FALSE, nums |-> {}, goods |-> {}, total |-> 0]
  ELSE LET found == RankedMatches(text)
       IN  IF \E i \in 1..Len(found) : MarkerRaises(found[i][1])
             THEN [raised |-> TRUE, nums |-> {}, goods |-> {}, total |-> 0]
             ELSE LET res == ResolvedPairs(RankedPairs(found))
                  IN  [raised |-> FALSE,
                       nums   |-> {pr[1] : pr \in res},
                       goods  |-> {pr[2] : pr \in res},
                       total  |-> Len(found)]

\* ------------------------------------------------------------------------
\* Unordered-mention parser
\* ------------------------------------------------------------------------

\* the number of items a complete ranking has (the literal 10 of the detectors)
FullCount == 10

\* all_aliases, as a set
AllAliases ==
  UNION {{ITEM_ALIASES[i].aliases[j] : j \in 1..Len(ITEM_ALIASES[i].aliases)} :
           i \in 1..Len(ITEM_ALIASES)}

\* alias2key[alias]
Alias2Key(alias) ==
  LET i == CHOOSE k \in 1..Len(ITEM_ALIASES) :
             \E j \in 1..Len(ITEM_ALIASES[k].aliases) : ITEM_ALIASES[k].aliases[j] = alias
  IN  ITEM_ALIASES[i].key

\* Variant of AliasAt for an alternation that lists the shortest alias first:
\* C11 depends on the order of the alternatives.
ShortestAliasAt(s, p) ==
  LET cands == {a \in AllAliases : MatchesAt(s, p, a)}
  IN  IF cands = {} THEN << >>
      ELSE CHOOSE a \in cands : \A b \in cands : Len(a) <= Len(b)

\* The alias the longest-first alternation matches at position p (<< >> if none)
AliasAt(s, p) ==
  LET cands == {a \in AllAliases : MatchesAt(s, p, a)}
  IN  IF cands = {} THEN << >>
      ELSE CHOOSE a \in cands : \A b \in cands : Len(b) <= Len(a)

\* pattern.search(s, i): the start of the leftmost match at or after i (0 if none)
RECURSIVE SearchAlias(_, _)
SearchAlias(s, i) ==
  IF i > Len(s) THEN 0
  ELSE IF AliasAt(s, i) # << >> THEN i
  ELSE SearchAlias(s, i + 1)

InSeq(x, seq) == \E k \in 1..Len(seq) : seq[k] = x

\* the while loop of _parse_unordered_items_in_order, from scan index i
\* Variant of ScanMentions that does not look at the character after an
\* occurrence: C10 depends on the next_ok test.
RECURSIVE ScanMentionsNoNext(_, _, _)
ScanMentionsNoNext(s, i, ordered) ==
  IF i > Len(s) THEN ordered
  ELSE LET start == SearchAlias(s, i)
       IN  IF start = 0 THEN ordered
           ELSE LET alias   == AliasAt(s, start)
                    end     == start + Len(alias)
                    prev_ok == (start = 1) \/ (s[start - 1] \in SEPS)
                    key     == Alias2Key(alias)
                IN  IF prev_ok
                      THEN IF ~InSeq(key, ordered)
                             THEN IF Len(ordered) + 1 = FullCount
                                    THEN Append(ordered, key)
                                    ELSE ScanMentionsNoNext(s, end, Append(ordered, key))
                             ELSE ScanMentionsNoNext(s, end, ordered)
                      ELSE ScanMentionsNoNext(s, start + 1, ordered)

RECURSIVE ScanMentions(_, _, _)
ScanMentions(s, i, ordered) ==
  IF i > Len(s) THEN ordered
  ELSE LET start == SearchAlias(s, i)
       IN  IF start = 0 THEN ordered
           ELSE LET alias   == AliasAt(s, start)
                    end     == start + Len(alias)
                    prev_ok == (start = 1) \/ (s[start - 1] \in SEPS)
                    next_ok == (end = Len(s) + 1) \/ (s[end] \in SEPS)
                    key     == Alias2Key(alias)
                IN  IF prev_ok /\ next_ok
                      THEN IF ~InSeq(key, ordered)
                             THEN IF Len(ordered) + 1 = FullCount
                                    THEN Append(ordered, key)
                                    ELSE ScanMentions(s, end, Append(ordered, key))
                             ELSE ScanMentions(s, end, ordered)
                      ELSE ScanMentions(s, start + 1, ordered)

\* How far the while loop of _parse_unordered_items_in_order gets in the text
\* (1-based: Len(s) + 1 is the end of the text): the scan index i when the loop
\* runs out of text or of matches, the end of the 10th item's match on the break.
\* Variant of ScanStop that keeps scanning after the 10th item: C12 depends on
\* the break.
RECURSIVE ScanStopNoBreak(_, _, _)
ScanStopNoBreak(s, i, ordered) ==
  IF i > Len(s) THEN i
  ELSE LET start == SearchAlias(s, i)
       IN  IF start = 0 THEN i
           ELSE LET alias   == AliasAt(s, start)
                    end     == start + Len(alias)
                    prev_ok == (start = 1) \/ (s[start - 1] \in SEPS)
                    next_ok == (end = Len(s) + 1) \/ (s[end] \in SEPS)
                    key     == Alias2Key(alias)
                IN  IF prev_ok /\ next_ok
                      THEN IF ~InSeq(key, ordered)
                             THEN ScanStopNoBreak(s, end, Append(ordered, key))
                             ELSE ScanStopNoBreak(s, end, ordered)
                      ELSE ScanStopNoBreak(s, start + 1, ordered)

RECURSIVE ScanStop(_, _, _)
ScanStop(s, i, ordered) ==
  IF i > Len(s) THEN i
  ELSE LET start == SearchAlias(s, i)
       IN  IF start = 0 THEN i
           ELSE LET alias   == AliasAt(s, start)
                    end     == start + Len(alias)
                    prev_ok == (start = 1) \/ (s[start - 1] \in SEPS)
                    next_ok == (end = Len(s) + 1) \/ (s[end] \in SEPS)
                    key     == Alias2Key(alias)
                IN  IF prev_ok /\ next_ok
                      THEN IF ~InSeq(key, ordered)
                             THEN IF Len(ordered) + 1 = FullCount
                                    THEN end
                                    ELSE ScanStop(s, end, Append(ordered, key))
                             ELSE ScanStop(s, end, ordered)
                      ELSE ScanStop(s, start + 1, ordered)

\* Variant of _parse_unordered_items_in_order whose list of found items
\* outlives the call (it starts from what the previous call returned): C18
\* depends on ordered and seen being local to the call.
ParseUnorderedKeepingSeen(text) ==
  IF text = << >> THEN << >>
  ELSE ScanMentions(text, 1, IF pc = "called" THEN verdict.unordered ELSE << >>)

_parse_unordered_items_in_order(text) ==
  IF text = << >> THEN << >> ELSE ScanMentions(text, 1, << >>)

\* ------------------------------------------------------------------------
\* Completion detector
\* ------------------------------------------------------------------------

\* Variant of detect_task_completed that falls back to the unordered parser
\* for assistant text too: C3 depends on the by_user test.
DetectIgnoringByUser(latest_text, by_user) ==
  LET r == _parse_ranked_items(latest_text)
  IN  IF r.raised THEN ValueError
      ELSE IF /\ Cardinality(r.nums) = FullCount
              /\ \A n \in 1..FullCount : n \in r.nums
              /\ Cardinality(r.goods) = FullCount
             THEN PyTrue
      ELSE IF Len(_parse_unordered_items_in_order(latest_text)) = FullCount
             THEN PyTrue
      ELSE PyFalse

\* Variant of detect_task_completed that does not count the resolved items:
\* C4 depends on the len(goods) test.
DetectWithoutItemCount(latest_text, by_user) ==
  LET r == _parse_ranked_items(latest_text)
  IN  IF r.raised THEN ValueError
      ELSE IF /\ Cardinality(r.nums) = FullCount
              /\ \A n \in 1..FullCount : n \in r.nums
             THEN PyTrue
      ELSE IF by_user /\ Len(_parse_unordered_items_in_order(latest_text)) = FullCount
             THEN PyTrue
      ELSE PyFalse

detect_task_completed(latest_text, by_user) ==
  LET r == _parse_ranked_items(latest_text)
  IN  IF r.raised THEN ValueError
      ELSE IF /\ Cardinality(r.nums) = FullCount
              /\ \A n \in 1..FullCount : n \in r.nums
              /\ Cardinality(r.goods) = FullCount
             THEN PyTrue
      ELSE IF by_user /\ Len(_parse_unordered_items_in_order(latest_text)) = FullCount
             THEN PyTrue
      ELSE PyFalse

\* ------------------------------------------------------------------------
\* Shortlist-intent detector (prompt_1007/assistant_p.py)
\*
\* Characters of its texts:
\*   zui zhong ru wei   U+6700 U+7EC8 U+5165 U+56F4   (final shortlist)
\*   hou xuan           U+5019 U+9009                 (candidate / choose)
\*   jue ding que ren   U+51B3 U+5B9A U+786E U+8BA4   (decide / confirm)
\*   tui jian           U+63A8 U+8350                 (recommend)
\*   an pai jin mian shi U+5B89 U+6392 U+8FDB U+9762 U+8BD5
\*   qing wo ze         U+8BF7 U+6211 U+62E9
\*   ni3 jue2 de        U+4F60 U+89C9 U+5F97           (you think)
\*   na ge geng hao3    U+54EA U+4E2A U+66F4 U+597D   (which is better)
\*   shi4 he            U+9002 U+5408                 (suitable)
\*   jian4 yi4          U+5EFA U+8BAE                 (suggest)
\*   hai shi2 he2       U+8FD8 U+662F U+548C          (or / and)
\*   fcolon U+FF1A, fq U+FF1F
\* ------------------------------------------------------------------------

ValidLetters == {"A", "B", "C", "D", "E", "F", "G"}

\* str.upper() on one character
UpperChar(c) ==
  CASE c = "a" -> "A" [] c = "b" -> "B" [] c = "c" -> "C" [] c = "d" -> "D"
    [] c = "e" -> "E" [] c = "f" -> "F" [] c = "g" -> "G" [] c = "h" -> "H"
    [] c = "k" -> "K" [] c = "o" -> "O"
    [] OTHER -> c

\* str.lower() on one character
LowerChar(c) ==
  CASE c = "A" -> "a" [] c = "B" -> "b" [] c = "C" -> "c" [] c = "D" -> "d"
    [] c = "E" -> "e" [] c = "F" -> "f" [] c = "G" -> "g" [] c = "H" -> "h"
    [] c = "K" -> "k" [] c = "O" -> "o"
    [] OTHER -> c

Upper(s) == [i \in 1..Len(s) |-> UpperChar(s[i])]
Lower(s) == [i \in 1..Len(s) |-> LowerChar(s[i])]

\* the characters that are not \w (punctuation and white space); every
\* letter, digit and CJK character is \w
NonWordChars ==
  {" ", "\n", "\t", "\r", ",", ".", ":", ";", "?", "(", ")", "-",
   "fcomma", "dun", "fstop", "fsemi", "fcolon", "fq", "frparen"}

IsWordChar(c) == c \notin NonWordChars

\* \b at position p (between s[p-1] and s[p])
WordBoundary(s, p) ==
  LET before == p > 1 /\ IsWordChar(s[p - 1])
      after  == p <= Len(s) /\ IsWordChar(s[p])
  IN  before # after

\* the subsequence of s at the positions in pos, in order
RECURSIVE PickFrom(_, _, _)
PickFrom(s, p, keep) ==
  IF p > Len(s) THEN << >>
  ELSE IF p \in keep THEN <<s[p]>> \o PickFrom(s, p + 1, keep)
  ELSE PickFrom(s, p + 1, keep)

\* re.findall(r"\b([A-G])\b", txt_upper)
FindIsolatedLetters(u) ==
  PickFrom(u, 1, {p \in 1..Len(u) :
                    u[p] \in ValidLetters /\ WordBoundary(u, p) /\ WordBoundary(u, p + 1)})

\* re.findall(r"([A-G])", txt_upper)
FindAnyLetters(u) == PickFrom(u, 1, {p \in 1..Len(u) : u[p] \in ValidLetters})

intent_keywords ==
  << <<"zui","zhong","ru","wei">>, <<"zui","zhong","hou","xuan">>, <<"ru","wei">>,
     <<"ru","xuan">>, <<"xuan">>, <<"jue","ding">>, <<"que","ren">>, <<"que","ding">>,
     <<"tui","jian">>, <<"an","pai","jin","ru">>, <<"jin","ru","zui","zhong","mian","shi">>,
     <<"jin","ru","mian","shi">>, <<"jin","ru","zui","zhong">>, <<"qing","ru","wei">>,
     <<"qing","an","pai">> >>

\* re.search of  first .{0,6} (alt1|alt2|...)  : `.` matches all but a newline
GapPattern(s, first, alts) ==
  \E i \in 1..Len(s), gap \in 0..6 :
     /\ s[i] = first
     /\ \A k \in 1..gap : i + k <= Len(s) /\ s[i + k] # "\n"
     /\ \E a \in alts : MatchesAt(s, i + 1 + gap, a)

\* re.search(r"最终入围\s*[:：]", latest_text)
FinalColonPattern(s) ==
  \E i \in 1..Len(s) :
     /\ MatchesAt(s, i, <<"zui","zhong","ru","wei">>)
     /\ LET q == SkipWhile(s, i + 4, Whitespace)
        IN  q <= Len(s) /\ s[q] \in {":", "fcolon"}

\* the question triggers of the re.search on `lower`
QuestionTriggers ==
  { <<"ni3","jue2","de">>, <<"na","ge","geng","hao3">>, <<"na","ge","geng","shi4","he">>,
    <<"jian4","yi4","na","ge">>, <<"tui","jian","na","ge">>, <<"na","ge","hao3">> }

HasQuestionTrigger(lower) == \E q \in QuestionTriggers : Contains(lower, q)

HasIntentKeyword(latest_text) ==
  LET lower == Lower(latest_text)
  IN  \E j \in 1..Len(intent_keywords) :
         Contains(latest_text, intent_keywords[j]) \/ Contains(lower, Lower(intent_keywords[j]))

HasIntentPattern(latest_text) ==
  \/ GapPattern(latest_text, "wo",
                { <<"xuan","ze">>, <<"jue","ding">>, <<"que","ren">>, <<"tui","jian">>,
                  <<"ru","wei">>, <<"ru","xuan">> })
  \/ FinalColonPattern(latest_text)
  \/ GapPattern(latest_text, "qing",
                { <<"ru","wei">>, <<"an","pai">>, <<"que","ren">>, <<"xuan","ze">> })

has_intent(latest_text) == HasIntentKeyword(latest_text) \/ HasIntentPattern(latest_text)

\* first occurrences of found, in order
RECURSIVE Dedupe(_, _)
Dedupe(found, ordered) ==
  IF found = << >> THEN ordered
  ELSE IF InSeq(Head(found), ordered) THEN Dedupe(Tail(found), ordered)
  ELSE Dedupe(Tail(found), Append(ordered, Head(found)))

\* Variant of detect_hr_final_selection that accepts one letter: C9 depends
\* on the len(ordered) >= 2 test.
DetectHRAtLeastOne(latest_text) ==
  IF latest_text = << >> THEN << >>
  ELSE LET txt_upper == Upper(latest_text)
           isolated  == FindIsolatedLetters(txt_upper)
           found     == IF isolated = << >> THEN FindAnyLetters(txt_upper) ELSE isolated
           intent    == has_intent(latest_text)
           ordered   == Dedupe(found, << >>)
       IN  IF ~intent /\ HasQuestionTrigger(Lower(latest_text)) THEN << >>
           ELSE IF intent /\ Len(ordered) >= 1 THEN ordered
           ELSE << >>

detect_hr_final_selection(latest_text) ==
  IF latest_text = << >> THEN << >>
  ELSE LET txt_upper == Upper(latest_text)
           isolated  == FindIsolatedLetters(txt_upper)
           found     == IF isolated = << >> THEN FindAnyLetters(txt_upper) ELSE isolated
           intent    == has_intent(latest_text)
           ordered   == Dedupe(found, << >>)
       IN  IF ~intent /\ HasQuestionTrigger(Lower(latest_text)) THEN << >>
           ELSE IF intent /\ Len(ordered) >= 2 THEN ordered
           ELSE << >>

\* ------------------------------------------------------------------------
\* Detector calls on bounded texts
\*
\* A text is written segment by segment.  The regular text of a layout lists
\* the items in the rotated table order, numbered 1, 2, ...; at most one
\* segment of a text deviates from that.
\* ------------------------------------------------------------------------

\* rotations of the item order, 0..MaxRot
MaxRot == 1
\* segments in a text
MaxSegs == 11

\* "dot":      k. item      one entry per line
\* "dun":      k、item       entries on one line, separated by a blank
\* "circled":  (k) item     circled numeral, one entry per line
\* "mentions": item         no numbering, fullwidth commas between the items
Layouts == {"dot", "dun", "circled", "mentions"}
EntryLayouts == {"dot", "dun", "circled"}

Deviations ==
  {"late_ord", "late_item", "dup", "two", "mention", "junk", "alt", "mid", "xbefore",
   "xafter", "reuse"}

NumItems == Len(ITEM_ALIASES)
ItemKeys == {ITEM_ALIASES[i].key : i \in 1..NumItems}
KeyIndex(key) == CHOOSE i \in 1..NumItems : ITEM_ALIASES[i].key = key
Canonical(key) == ITEM_ALIASES[KeyIndex(key)].aliases[1]
ShortAlias(key) ==
  LET a == ITEM_ALIASES[KeyIndex(key)].aliases IN a[Len(a)]

\* the second alias of an item that has three
MidAlias(key) == ITEM_ALIASES[KeyIndex(key)].aliases[2]

\* the j-th item of the table order rotated by r
RotItem(r, j) == ITEM_ALIASES[((j - 1 + r) % NumItems) + 1].key

Decimal(k) ==
  IF k = 10 THEN <<"1", "0">>
  ELSE <<CHOOSE c \in DOMAIN DigitValue : DigitValue[c] = k>>

CircledOf(k) == CHOOSE c \in DOMAIN CIRCLED : CIRCLED[c] = k

MarkerText(lay, k) ==
  CASE lay = "dot"     -> Decimal(k) \o <<".", " ">>
    [] lay = "dun"     -> Decimal(k) \o <<"dun">>
    [] lay = "circled" -> <<CircledOf(k), " ">>

Joiner(lay) ==
  CASE lay = "dot" -> <<"\n">> [] lay = "circled" -> <<"\n">>
    [] lay = "dun" -> <<" ">>  [] lay = "mentions" -> <<"fcomma">>

UsedOrds  == {segs[i].ord : i \in 1..Len(segs)} \ {0}
NamedKeys == UNION {segs[i].names : i \in 1..Len(segs)}
FreeOrds  == (1..FullCount) \ UsedOrds
FreeSlots == {j \in 1..NumItems : RotItem(rot, j) \notin NamedKeys}

Min(S) == CHOOSE x \in S : \A y \in S : x <= y
Max(S) == CHOOSE x \in S : \A y \in S : y <= x

\* the segment a step writes: dev = "none" for the regular one
Segment(dev) ==
  LET numbered == layout \in EntryLayouts /\ dev # "mention"
      ord   == IF ~numbered THEN 0
               ELSE IF dev = "reuse" THEN segs[1].ord
               ELSE IF dev = "late_ord" THEN Max(FreeOrds) ELSE Min(FreeOrds)
      key   == IF dev = "junk" THEN NoneVal
               ELSE IF dev = "dup" THEN segs[1].key
               ELSE IF dev = "reuse" THEN segs[2].key
               ELSE IF dev = "late_item" THEN RotItem(rot, Max(FreeSlots))
               ELSE RotItem(rot, Min(FreeSlots))
      body  == CASE dev = "junk"    -> <<"x">>
                 [] dev = "alt"     -> ShortAlias(key)
                 [] dev = "mid"     -> MidAlias(key)
                 [] dev = "xbefore" -> <<"x">> \o Canonical(key)
                 [] dev = "xafter"  -> Canonical(key) \o <<"x">>
                 [] dev = "two"     -> Canonical(key) \o <<" ">> \o Canonical(segs[1].key)
                 [] OTHER           -> Canonical(key)
      names == CASE dev = "junk" -> {}
                 [] dev = "two"  -> {key, segs[1].key}
                 [] OTHER        -> {key}
  IN  [dev |-> dev, ord |-> ord, key |-> key, names |-> names, body |-> body,
       chars |-> (IF numbered THEN MarkerText(layout, ord) ELSE << >>) \o body]

\* when a step can write the segment
CanWrite(dev) ==
  /\ Len(segs) < MaxSegs
  /\ dev # "none" => ~deviated
  /\ dev \in {"dup", "two"} => segs # << >> /\ segs[1].key # NoneVal
  /\ dev \notin {"dup", "junk", "reuse"} => FreeSlots # {}
  /\ (layout \in EntryLayouts /\ dev \notin {"mention", "reuse"}) => FreeOrds # {}
  /\ dev = "reuse" => /\ layout \in EntryLayouts /\ Len(segs) >= 2
                      /\ segs[1].ord # 0 /\ segs[2].key # NoneVal
  /\ dev = "late_ord" => layout \in EntryLayouts /\ Cardinality(FreeOrds) > 1
  /\ dev = "late_item" => Cardinality(FreeSlots) > 1
  /\ dev = "mention" => layout \in EntryLayouts
  /\ dev \in {"xbefore", "xafter"} => layout = "mentions"
  /\ dev = "alt" => ShortAlias(RotItem(rot, Min(FreeSlots))) # Canonical(RotItem(rot, Min(FreeSlots)))
  /\ dev = "mid" => Len(ITEM_ALIASES[KeyIndex(RotItem(rot, Min(FreeSlots)))].aliases) = 3

IdleSession ==
  /\ app = "none" /\ messages = << >> /\ log = << >> /\ stage = 0
  /\ matched_items = << >> /\ time_up = FALSE /\ elapsed = 0
  /\ finished = FALSE /\ finished_reason = NoneVal /\ pending_selection = << >>
  /\ calls = 0 /\ turns = 0 /\ api_key = TRUE /\ last = "none"

NoVerdict == [ranked |-> [raised |-> FALSE, nums |-> {}, goods |-> {}, total |-> 0],
              unordered |-> << >>, completed |-> NoneVal]

DetectInit ==
  /\ input = << >> /\ segs = << >> /\ deviated = FALSE
  /\ layout \in Layouts
  /\ rot \in 0..MaxRot
  /\ user_flag = FALSE /\ pc = "build" /\ verdict = NoVerdict
  /\ IdleSession

WriteSegment(dev) ==
  /\ pc = "build"
  /\ CanWrite(dev)
  /\ LET seg == Segment(dev)
     IN  /\ segs' = Append(segs, seg)
         /\ input' = input \o (IF input = << >> THEN << >> ELSE Joiner(layout)) \o seg.chars
  /\ deviated' = (deviated \/ dev # "none")
  /\ UNCHANGED <<layout, rot, user_flag, pc, verdict, sessionVars>>

WriteRegular == WriteSegment("none")

WriteDeviation == \E dev \in Deviations : WriteSegment(dev)

\* one call detect_task_completed(text, b), with what its parsers return
RunDetector ==
  /\ pc = "build"
  /\ \E b \in BOOLEAN :
       /\ user_flag' = b
       /\ verdict' = [ranked    |-> _parse_ranked_items(input),
                     unordered |-> _parse_unordered_items_in_order(input),
                     completed |-> detect_task_completed(input, b)]
  /\ pc' = "done"
  /\ UNCHANGED <<input, segs, layout, rot, deviated, sessionVars>>

DetectNext == WriteRegular \/ WriteDeviation \/ RunDetector

SpecDetect == DetectInit /\ [][DetectNext]_vars

\* ------------------------------------------------------------------------
\* Facts about how a text was written (used to state the claims)
\* ------------------------------------------------------------------------

Range(seq) == {seq[i] : i \in 1..Len(seq)}

Entries == {i \in 1..Len(segs) : segs[i].ord # 0}

\* the item the phrase of entry i resolves to
Resolved(i) == _normalize_item(segs[i].body)

\* the text is the 10 lines "k. p[k]" of a permutation p, in some line order
PermutationText ==
  /\ layout = "dot"
  /\ Len(segs) = FullCount
  /\ \A i \in 1..Len(segs) :
        segs[i].ord # 0 /\ segs[i].key # NoneVal /\ segs[i].body = Canonical(segs[i].key)
  /\ UsedOrds = 1..FullCount
  /\ {segs[i].key : i \in 1..Len(segs)} = ItemKeys

\* some ordinal of 1..10 numbers no entry of the text
MissingOrdinal == \E k \in 1..FullCount : k \notin UsedOrds

\* all ordinals number an entry, two entries resolve to one item and an
\* item is resolved by no entry
RepeatedItemRanking ==
  /\ UsedOrds = 1..FullCount
  /\ \E i, j \in Entries : i # j /\ Resolved(i) # NoneVal /\ Resolved(i) = Resolved(j)
  /\ \E key \in ItemKeys : \A i \in Entries : Resolved(i) # key

\* the numbered rule of detect_task_completed, on what the ranked parser returned
NumberedRuleHolds ==
  /\ ~verdict.ranked.raised
  /\ verdict.ranked.nums = 1..FullCount
  /\ Cardinality(verdict.ranked.goods) = FullCount

\* a circled numeral numbers an entry of the text
CircledEntry == layout = "circled" /\ Entries # {}

\* an occurrence of alias a at position p of s with a separator, or the end
\* of the text, on both sides
BoundedOccurrence(s, p, a) ==
  /\ MatchesAt(s, p, a)
  /\ p = 1 \/ s[p - 1] \in SEPS
  /\ p + Len(a) = Len(s) + 1 \/ s[p + Len(a)] \in SEPS

AliasesOf(key) ==
  LET a == ITEM_ALIASES[KeyIndex(key)].aliases IN {a[j] : j \in 1..Len(a)}

\* ------------------------------------------------------------------------
\* Claims on the detectors
\* ------------------------------------------------------------------------

\* C2: for a permutation p of the 10 items, the text of the 10 lines "k. p[k]"
\* (in any line order) is judged complete, as user text and as assistant text.
C2_PermutationComplete ==
  (pc = "done" /\ PermutationText) => verdict.completed = PyTrue

\* C2 witness: a permuted ranking with its lines out of order was judged
\* complete as assistant text.
C2_Witness ==
  /\ pc = "done" /\ PermutationText /\ ~user_flag
  /\ rot # 0 /\ segs[1].ord # 1
  /\ verdict.completed = PyTrue

C5_Original ==
  pc = "done" =>
     (verdict.completed = PyTrue <=>
        (NumberedRuleHolds \/ (user_flag /\ Len(verdict.unordered) = FullCount)))

\* C10: every item the unordered-mention parser returns has an occurrence of
\* one of its aliases with a separator or the text boundary on both sides; an
\* item whose only occurrence touches a non-separator character is not returned.
C10_BoundaryRule ==
  pc = "done" =>
     /\ \A key \in Range(verdict.unordered) :
           \E a \in AliasesOf(key), p \in 1..Len(input) : BoundedOccurrence(input, p, a)
     /\ \A i \in 1..Len(segs) :
           ( /\ segs[i].dev \in {"xbefore", "xafter"}
             /\ \A j \in 1..Len(segs) : j # i => segs[i].key \notin segs[j].names )
           => segs[i].key \notin Range(verdict.unordered)

\* C10 witness: a mention followed by a letter was not counted while the
\* mentions around it were.
C10_Witness ==
  /\ pc = "done" /\ layout = "mentions"
  /\ \E i \in 1..Len(segs) : i < Len(segs) /\ i > 1 /\ segs[i].dev = "xafter"
  /\ Len(verdict.unordered) = Len(segs) - 1
  /\ Len(segs) >= 4

\* alias a has a shorter alias of the table inside it
EmbedsShorterAlias(a) ==
  \E b \in AllAliases : Len(b) < Len(a) /\ Contains(a, b)

\* the number of times key is in the list
CountOf(key, seq) == Cardinality({k \in 1..Len(seq) : seq[k] = key})

\* C11: where an alias that has a shorter alias inside it stands between
\* separators (or text boundaries), the alternation matches the longer alias
\* there, the item of the longer alias is in the list the unordered-mention
\* parser returns, once, and the part that spells the shorter alias adds no
\* further element.
C11_LongestAliasWins ==
  pc = "done" =>
     \A p \in 1..Len(input) : \A a \in AllAliases :
        (BoundedOccurrence(input, p, a) /\ EmbedsShorterAlias(a)) =>
           /\ AliasAt(input, p) = a
           /\ CountOf(Alias2Key(a), verdict.unordered) = 1
           /\ \A b \in AllAliases :
                 (Len(b) < Len(a) /\ Contains(a, b)) =>
                    CountOf(Alias2Key(b), verdict.unordered) = 1

\* C11 witness: an alias with a shorter alias as its prefix and an alias with
\* a shorter alias as its suffix were both written between separators and the
\* parser returned one element for each segment.
C11_Witness ==
  /\ pc = "done"
  /\ \E p, q \in 1..Len(input) : \E a, c \in AllAliases :
        /\ BoundedOccurrence(input, p, a) /\ BoundedOccurrence(input, q, c)
        /\ \E b \in AllAliases : Len(b) < Len(a) /\ MatchesAt(a, 1, b)
        /\ \E b \in AllAliases : Len(b) < Len(c) /\ MatchesAt(c, Len(c) - Len(b) + 1, b)
  /\ Len(segs) >= 3
  /\ Len(verdict.unordered) = Len(segs)

\* the text before position p
Before(s, p) == SubSeq(s, 1, p - 1)

\* C12: the unordered-mention parser returns at most 10 items; when it returns
\* 10, the loop ends at the end of the 10th item's occurrence, the text up to
\* there gives the same list as the whole text, and a segment written after
\* the 10 items is not scanned.
C12_StopsAtTen ==
  pc = "done" =>
     /\ Len(verdict.unordered) <= FullCount
     /\ Len(verdict.unordered) = FullCount =>
          LET stop == ScanStop(input, 1, << >>)
          IN  /\ stop <= Len(input) + 1
              /\ _parse_unordered_items_in_order(Before(input, stop)) = verdict.unordered
              /\ (Len(segs) = FullCount + 1 /\ segs[Len(segs)].dev \in {"dup", "junk"}) =>
                    stop <= Len(input) - Len(segs[Len(segs)].chars)

\* C12 witness: 10 items were mentioned, an 11th segment names the first item
\* again, and the parser returned the 10 items.
C12_Witness ==
  /\ pc = "done" /\ layout = "mentions"
  /\ Len(segs) = FullCount + 1
  /\ segs[Len(segs)].dev = "dup"
  /\ Len(verdict.unordered) = FullCount
  /\ ScanStop(input, 1, << >>) < Len(input) - 1

\* the items the entries numbered k resolve to, and the ordinals of the
\* entries that resolve to key
ItemsAt(k)      == {Resolved(i) : i \in {j \in Entries : segs[j].ord = k}} \ {NoneVal}
OrdinalsOf(key) == {segs[i].ord : i \in {j \in Entries : Resolved(j) = key}}

\* C19: a text the numbered rule declares complete numbers each of the 10
\* items with exactly one ordinal and gives each ordinal 1..10 exactly one item.
C19_Original ==
  (pc = "done" /\ NumberedRuleHolds) =>
     /\ \A k \in 1..FullCount : Cardinality(ItemsAt(k)) = 1
     /\ \A key \in ItemKeys : Cardinality(OrdinalsOf(key)) = 1

\* the text is the one line "1<dun>p[1] 2<dun>p[2] ... 10<dun>p[10]" of the 10
\* items in some order, the entries separated by a blank
CompactEnumeration ==
  /\ layout = "dun"
  /\ Len(segs) = FullCount
  /\ \A i \in 1..Len(segs) :
        segs[i].ord = i /\ segs[i].key # NoneVal /\ segs[i].body = Canonical(segs[i].key)
  /\ {segs[i].key : i \in 1..Len(segs)} = ItemKeys

\* C20: for a compact single-line enumeration of the 10 items the ranked
\* parser returns the ordinal set {1..10} and 10 resolved items.
C20_Original ==
  (pc = "done" /\ CompactEnumeration) =>
     /\ ~verdict.ranked.raised
     /\ verdict.ranked.nums = 1..FullCount
     /\ Cardinality(verdict.ranked.goods) = FullCount

\* the entries whose phrase resolves to an item
ResolvedEntries == {i \in Entries : Resolved(i) # NoneVal}

\* C21: for a text of numbered lines "k. phrase" the ranked parser returns as
\* ordinal set the ordinals of the entries whose phrase resolves and as item
\* set the items they resolve to, and counts every entry in the total, once
\* for each of its two patterns.  An entry whose phrase holds no alias gives
\* neither its ordinal nor an item; entries that share an ordinal give it
\* once, and each of them gives its item.
C21_UnresolvedAndRepeatedPairs ==
  (pc = "done" /\ layout = "dot") =>
     /\ ~verdict.ranked.raised
     /\ verdict.ranked.nums = {segs[i].ord : i \in ResolvedEntries}
     /\ verdict.ranked.goods = {Resolved(i) : i \in ResolvedEntries}
     /\ verdict.ranked.total = 2 * Cardinality(Entries)
     /\ \A i \in Entries :
           (segs[i].dev = "junk" /\ \A j \in Entries : j # i => segs[j].ord # segs[i].ord)
              => segs[i].ord \notin verdict.ranked.nums
     /\ \A i \in Entries : segs[i].dev = "reuse" =>
           /\ {Resolved(1), Resolved(i)} \subseteq verdict.ranked.goods
           /\ Cardinality(verdict.ranked.nums) < Cardinality(ResolvedEntries)

\* C21 witness: a text of numbered lines held an entry without an alias
\* between entries that resolve.
C21_Witness ==
  /\ pc = "done" /\ layout = "dot" /\ Len(segs) >= 4
  /\ \E i \in Entries :
        /\ 1 < i /\ i < Len(segs) /\ segs[i].dev = "junk"
        /\ segs[i].ord \notin verdict.ranked.nums
  /\ Cardinality(verdict.ranked.nums) = Len(segs) - 1
  /\ verdict.ranked.total = 2 * Len(segs)

\* ------------------------------------------------------------------------
\* Shortlist detector calls on bounded texts
\*
\* A text is a sequence of tokens: candidate letters, punctuation, decision
\* phrases and question phrases.
\*   xuan                      U+9009                (choose)
\*   zui zhong ru wei fcolon   U+6700 U+7EC8 U+5165 U+56F4 U+FF1A
\*   hai shi                   U+8FD8 U+662F          (or)
\*   na ge geng hao3           U+54EA U+4E2A U+66F4 U+597D (which is better)
\*   tui jian na ge            U+63A8 U+8350 U+54EA U+4E2A (recommend which)
\* ------------------------------------------------------------------------

\* tokens in a text
MaxTokens == 4

LetterTokens   == {<<"A">>, <<"B">>, <<"b">>}
DecisionTokens == {<<"xuan">>, <<"zui", "zhong", "ru", "wei", "fcolon">>}
QuestionTokens == {<<"na", "ge", "geng", "hao3">>, <<"tui", "jian", "na", "ge">>}
HRTokens ==
  LetterTokens \cup DecisionTokens \cup QuestionTokens
    \cup {<<"H">>, <<"dun">>, <<"hai", "shi">>}

HRDetectInit ==
  /\ input = << >> /\ segs = << >> /\ deviated = FALSE
  /\ layout = "tokens" /\ rot = 0
  /\ user_flag = FALSE /\ pc = "build" /\ verdict = << >>
  /\ IdleSession

WriteToken(tok) ==
  /\ pc = "build"
  /\ Len(segs) < MaxTokens
  /\ segs' = Append(segs, tok)
  /\ input' = input \o tok
  /\ UNCHANGED <<layout, rot, deviated, user_flag, pc, verdict, sessionVars>>

WriteAnyToken == \E tok \in HRTokens : WriteToken(tok)

\* one call detect_hr_final_selection(text)
RunHRDetector ==
  /\ pc = "build"
  /\ verdict' = detect_hr_final_selection(input)
  /\ pc' = "done"
  /\ UNCHANGED <<input, segs, layout, rot, deviated, user_flag, sessionVars>>

HRDetectNext == WriteAnyToken \/ RunHRDetector

SpecHRDetect == HRDetectInit /\ [][HRDetectNext]_vars

\* the text names a candidate letter
MentionsLetter == \E i \in 1..Len(segs) : segs[i] \in LetterTokens

\* the text holds a question trigger
QuestionPhrased == \E i \in 1..Len(segs) : segs[i] \in QuestionTokens

\* the text holds a decision phrase
DecisionPhrased == \E i \in 1..Len(segs) : segs[i] \in DecisionTokens

\* the text holds an intent keyword: a decision phrase, or the keyword
\* U+63A8 U+8350 inside the question trigger "tui jian na ge"
IntentWorded ==
  DecisionPhrased \/ \E i \in 1..Len(segs) : segs[i] = <<"tui", "jian", "na", "ge">>

\* the valid letters of the text, upper-cased
LettersOfText == {UpperChar(input[p]) : p \in 1..Len(input)} \cap ValidLetters

\* the distinct valid letters of the text in order of first occurrence
DistinctLettersInOrder == Dedupe(FindAnyLetters(Upper(input)), << >>)

\* ------------------------------------------------------------------------
\* Claims on the shortlist detector
\* ------------------------------------------------------------------------

\* C7 (as claimed): a text that names candidate letters and is phrased as a
\* question (it holds one of the question triggers) gives the empty list.
C7_Original ==
  (pc = "done" /\ MentionsLetter /\ QuestionPhrased) => verdict = << >>

\* C8 (as claimed): a text with a decision phrase and at least two distinct
\* letters of A..G gives exactly its distinct valid letters in order of first
\* occurrence.
C8_Original ==
  (pc = "done" /\ DecisionPhrased /\ Cardinality(LettersOfText) >= 2)
     => verdict = DistinctLettersInOrder

MaxUserRot == 1
\* user messages accepted in a session of an LLM-backed variant
MaxTurns == 2
\* seconds that pass in one Tick
TickSeconds == 150
\* the time budget of a session, in seconds
TimeBudget == 300

StepApps == {"assistant", "partner"}
LLMApps  == {"flight", "hr"}
Apps     == StepApps \cup LLMApps

Msg(role, content) == [role |-> role, content |-> content]

\* no value from st.chat_input (None, or the empty string)
NoInput == << >>

\* What st.chat_input hands to a run in which the user tries to submit a text.
\* A widget the previous run rendered disabled takes no text.  A text typed
\* into an enabled widget reaches the run; when that run itself renders the
\* widget disabled, whether the text is still handed over is left open.
ChatInput(submitted, shown_disabled, disabled) ==
  IF submitted = NoInput \/ shown_disabled THEN {NoInput}
  ELSE IF disabled THEN {NoInput, submitted}
  ELSE {submitted}

\* --- step-wise variants ---

greeting_and_prompt == <<"greeting_and_prompt">>
first_step_prompt   == <<"first_step_prompt">>
step_prompts        == << <<"step_prompts_0">>, <<"step_prompts_1">>,
                          <<"step_prompts_2">>, <<"step_prompts_3">> >>
closing             == <<"closing">>
PleaseOk            == <<"Please input OK to begin.">>
PleaseSelect        == <<"Please select the provided item or choose an item that has not been selected.">>
ChatEnded           == <<"Chat has ended.">>

\* the table of \bword\b patterns and the item each stands for
item_alias ==
  << [pat |-> <<"w", "a", "t", "e", "r">>,           official |-> "a bottle of water"],
     [pat |-> <<"c", "a", "n", "v", "a", "s">>,      official |-> "a piece of canvas"],
     [pat |-> <<"m", "a", "p">>,                     official |-> "a map"],
     [pat |-> <<"k", "n", "i", "f", "e">>,           official |-> "a knife"],
     [pat |-> <<"c", "o", "m", "p", "a", "s", "s">>, official |-> "a magnetic compass"] >>

NumStepItems == Len(item_alias)

\* the replies random.choice picks from, per item
ReplyChoices == {"r1", "r2", "r3"}

\* re.search(r"\bword\b", lowered)
WordSearch(pat, lowered) ==
  \E p \in 1..Len(lowered) :
     /\ MatchesAt(lowered, p, pat)
     /\ WordBoundary(lowered, p)
     /\ WordBoundary(lowered, p + Len(pat))

\* the loop over the table, which stops at the first pattern found
RECURSIVE FirstMatch(_, _)
FirstMatch(lowered, j) ==
  IF j > NumStepItems THEN NoneVal
  ELSE IF WordSearch(item_alias[j].pat, lowered) THEN item_alias[j].official
  ELSE FirstMatch(lowered, j + 1)

matched_item(lowered) == FirstMatch(lowered, 1)

\* Variant of AssistantTimeCheck without the stage test: C27 depends on it.
AssistantTimeCheckAnyStage ==
  IF (~time_up) /\ elapsed >= TimeBudget THEN TRUE ELSE time_up

\* the time check at the top of the assistant variant's script
AssistantTimeCheck ==
  IF (~time_up) /\ stage # 99 /\ elapsed >= TimeBudget THEN TRUE ELSE time_up

\* Variant of AssistantDisabled that never disables the input: C1 depends on
\* the disabled flag.
NeverDisabled(stg, tu) == FALSE

\* disabled = (stage == 99) or time_up
AssistantDisabled(stg, tu) == stg = 99 \/ tu

\* disabled = stage == 99
PartnerDisabled(stg) == stg = 99

\* input_disabled = (not bool(ds_api_key)) or finished
InputDisabled(key, fin) == (~key) \/ fin

\* whether the previous run rendered the chat input disabled
WidgetDisabled ==
  CASE app = "assistant" -> AssistantDisabled(stage, time_up)
    [] app = "partner"   -> PartnerDisabled(stage)
    [] OTHER             -> InputDisabled(api_key, finished)

\* The handler of the assistant variant for a text it received; tu is the
\* time_up flag after the time check.
AssistantHandler(user_input, tu) ==
  LET withUser == Append(messages, Msg("user", user_input))
      lowered  == Lower(Strip(user_input))
      same     == [messages |-> withUser, stage |-> stage, matched_items |-> matched_items]
      answer(content) == Append(withUser, Msg("assistant", content))
  IN  IF tu THEN same
      ELSE IF stage = 0
        THEN IF lowered = <<"o", "k">>
               THEN [same EXCEPT !.messages = answer(first_step_prompt), !.stage = 1]
               ELSE [same EXCEPT !.messages = answer(PleaseOk)]
      ELSE LET found == matched_item(lowered)
           IN  IF found # NoneVal /\ ~InSeq(found, matched_items) /\ stage <= 5
                 THEN LET idx == Len(matched_items)
                      IN  IF idx < 4
                            THEN [messages      |-> answer(step_prompts[idx + 1]),
                                  stage         |-> stage + 1,
                                  matched_items |-> Append(matched_items, found)]
                            ELSE [messages      |-> answer(closing),
                                  stage         |-> 99,
                                  matched_items |-> Append(matched_items, found)]
                 ELSE [same EXCEPT !.messages =
                         answer(IF stage < 99 THEN PleaseSelect ELSE ChatEnded)]

\* Variant of PartnerHandler without the "not in chosen" test: C22 depends on
\* it.
PartnerHandlerNoClaimedTest(user_input, r) ==
  LET withUser == Append(messages, Msg("user", user_input))
      lowered  == Lower(Strip(user_input))
      same     == [messages |-> withUser, stage |-> stage, matched_items |-> matched_items]
      answer(content) == Append(withUser, Msg("assistant", content))
  IN  IF stage = 0
        THEN IF lowered = <<"o", "k">>
               THEN [same EXCEPT !.messages = answer(first_step_prompt), !.stage = 1]
               ELSE [same EXCEPT !.messages = answer(PleaseOk)]
      ELSE LET found == matched_item(lowered)
           IN  IF found # NoneVal
                 THEN LET chosen == Append(matched_items, found)
                          reply  == answer(<<"reply", found, r>>)
                      IN  IF Len(chosen) = 5
                            THEN [messages      |-> Append(reply, Msg("assistant", closing)),
                                  stage         |-> 99,
                                  matched_items |-> chosen]
                            ELSE [messages |-> reply, stage |-> stage,
                                  matched_items |-> chosen]
                 ELSE [same EXCEPT !.messages = answer(PleaseSelect)]

\* The handler of the partner variant; r is the reply random.choice picks.
PartnerHandler(user_input, r) ==
  LET withUser == Append(messages, Msg("user", user_input))
      lowered  == Lower(Strip(user_input))
      same     == [messages |-> withUser, stage |-> stage, matched_items |-> matched_items]
      answer(content) == Append(withUser, Msg("assistant", content))
  IN  IF stage = 0
        THEN IF lowered = <<"o", "k">>
               THEN [same EXCEPT !.messages = answer(first_step_prompt), !.stage = 1]
               ELSE [same EXCEPT !.messages = answer(PleaseOk)]
      ELSE LET found == matched_item(lowered)
           IN  IF found # NoneVal /\ ~InSeq(found, matched_items)
                 THEN LET chosen == Append(matched_items, found)
                          reply  == answer(<<"reply", found, r>>)
                      IN  IF Len(chosen) = 5
                            THEN [messages      |-> Append(reply, Msg("assistant", closing)),
                                  stage         |-> 99,
                                  matched_items |-> chosen]
                            ELSE [messages |-> reply, stage |-> stage,
                                  matched_items |-> chosen]
                 ELSE [same EXCEPT !.messages =
                         answer(IF stage < 99 THEN PleaseSelect ELSE ChatEnded)]

\* --- what the user of a step-wise variant types ---

Word(j) == item_alias[j].pat

StepInputs ==
  {Word(j) : j \in 1..NumStepItems}
    \cup { <<"o", "k">>, <<" ", "O", "K", "\n">>, <<"x">>,
           Word(4) \o <<" ">> \o Word(1), Word(1) \o <<"x">> }

\* the item the user names next when following the rotated order
NextSlot ==
  Min({j \in 1..NumStepItems :
         ~InSeq(item_alias[((j - 1 + rot) % NumStepItems) + 1].official, matched_items)})

RegularInput ==
  IF stage = 0 THEN <<"o", "k">>
  ELSE IF Len(matched_items) < NumStepItems
         THEN Word(((NextSlot - 1 + rot) % NumStepItems) + 1)
  ELSE <<"x">>

\* at most one text of a session leaves the regular order
MayType(u) == u = RegularInput \/ ~deviated

detectorIdle == <<input, segs, layout, user_flag, pc, verdict>>
llmVars      == <<log, finished, finished_reason, pending_selection, calls, turns, api_key>>

\* One run of the assistant variant in which the user tries to submit u.
AssistantRun(u) ==
  /\ app = "assistant"
  /\ last # "blocked"
  /\ LET tu       == AssistantTimeCheck
         disabled == AssistantDisabled(stage, tu)
     IN  \E user_input \in ChatInput(u, WidgetDisabled, disabled) :
            /\ time_up' = tu
            /\ IF user_input = NoInput
                 THEN /\ UNCHANGED <<messages, stage, matched_items, deviated>>
                      /\ last' = IF u = NoInput THEN last
                                 ELSE IF WidgetDisabled THEN "blocked" ELSE "expired"
                 ELSE /\ MayType(u)
                      /\ deviated' = (deviated \/ u # RegularInput)
                      /\ LET out == AssistantHandler(user_input, tu)
                         IN  /\ messages' = out.messages
                             /\ stage' = out.stage
                             /\ matched_items' = out.matched_items
                      /\ last' = IF tu THEN "expired" ELSE "handled"
  /\ UNCHANGED <<detectorIdle, rot, app, elapsed, llmVars>>

\* One run of the partner variant in which the user tries to submit u.
PartnerRun(u) ==
  /\ app = "partner"
  /\ last # "blocked"
  /\ \E user_input \in ChatInput(u, WidgetDisabled, PartnerDisabled(stage)) :
        IF user_input = NoInput
          THEN /\ UNCHANGED <<messages, stage, matched_items, deviated>>
               /\ last' = "blocked"
          ELSE /\ MayType(u)
               /\ deviated' = (deviated \/ u # RegularInput)
               /\ \E r \in ReplyChoices :
                    LET out == PartnerHandler(user_input, r)
                    IN  /\ messages' = out.messages
                        /\ stage' = out.stage
                        /\ matched_items' = out.matched_items
               /\ last' = "handled"
  /\ UNCHANGED <<detectorIdle, rot, app, time_up, elapsed, llmVars>>

\* --- LLM-backed variants ---

PROMPT_SYSTEM      == <<"PROMPT_SYSTEM">>
PROMPT_SYSTEM_2    == <<"PROMPT_SYSTEM_2">>
PROMPT_SYSTEM_3    == <<"PROMPT_SYSTEM_3">>
ASSISTANT_GREETING == <<"ASSISTANT_GREETING">>
done_msg           == <<"done_msg">>
EmptyReplyMsg      == <<"empty reply">>

\* the ten items numbered 1..10 (or only named) in the layout lay
RECURSIVE RankingFrom(_, _)
RankingFrom(lay, k) ==
  LET entry == (IF lay = "mentions" THEN << >> ELSE MarkerText(lay, k))
                 \o Canonical(RotItem(0, k))
  IN  IF k = FullCount THEN entry
      ELSE entry \o Joiner(lay) \o RankingFrom(lay, k + 1)

ChatText == <<"x">>

\* what the user of the ranking variant types
FlightInputs ==
  {ChatText, RankingFrom("dot", 1), RankingFrom("mentions", 1), RankingFrom("circled", 1)}

\* what the user of the shortlist variant types
HRInputs ==
  { ChatText,
    <<"zui", "zhong", "ru", "wei", "fcolon", "A", "dun", "B">>,
    <<"xuan", "C", "B", "A">>,
    <<"A", "hai", "shi", "B", "na", "ge", "geng", "hao3">>,
    <<"xuan", "A", "dun", "B">> }

ErrorCategories ==
  {"AuthenticationError", "RateLimitError", "APIConnectionError", "BadRequestError",
   "Exception"}

\* what client.chat.completions.create does: it returns a content or raises
ServiceOutcomes ==
  [kind : {"content"},
   text : {<<"x", "x">>, << >>, <<" ">>, RankingFrom("dot", 1), RankingFrom("mentions", 1),
           RankingFrom("circled", 1)}]
    \cup [kind : ErrorCategories, text : {<< >>}]

ShortOutcomes ==
  [kind : {"content"}, text : {<<"x", "x">>, << >>}]
    \cup [kind : ErrorCategories, text : {<< >>}]

\* reply = _extract_reply(rsp) or <fixed text>, or the text of the except branch
ReplyOf(outcome) ==
  IF outcome.kind = "content"
    THEN IF Strip(outcome.text) = << >> THEN EmptyReplyMsg ELSE Strip(outcome.text)
    ELSE <<outcome.kind>>

\* Variant of FlightTimeCheck that does not record the reason: C28 depends on
\* finished and finished_reason being written together.
FlightTimeCheckNoReason(fin, reason) ==
  LET local_time_up == (TimeBudget - elapsed) <= 0
  IN  IF local_time_up /\ ~fin THEN [finished |-> TRUE, finished_reason |-> reason]
      ELSE [finished |-> fin, finished_reason |-> reason]

\* Variant of FlightTimeCheck without the "not finished" test: C14 depends on it.
FlightTimeCheckAlways(fin, reason) ==
  LET local_time_up == (TimeBudget - elapsed) <= 0
  IN  IF local_time_up THEN [finished |-> TRUE, finished_reason |-> "time"]
      ELSE [finished |-> fin, finished_reason |-> reason]

\* the time check of the ranking variant, on finished and finished_reason
FlightTimeCheck(fin, reason) ==
  LET local_time_up == (TimeBudget - elapsed) <= 0
  IN  IF local_time_up /\ ~fin THEN [finished |-> TRUE, finished_reason |-> "time"]
      ELSE [finished |-> fin, finished_reason |-> reason]

\* Variant of FlightTurnResult without the test of the user's text: C16
\* depends on it.
FlightTurnResultReplyOnly(user_text, reply, byUser, byReply) ==
  LET withUser == Append(messages, Msg("user", user_text))
      logUser  == Append(log, Msg("user", user_text))
  IN  [messages |-> Append(withUser, Msg("assistant", reply)),
       log      |-> Append(logUser, Msg("assistant", reply)),
       finished |-> (IF byReply = PyTrue THEN TRUE ELSE finished),
       finished_reason |-> (IF byReply = PyTrue THEN "completed" ELSE finished_reason),
       calls    |-> calls + 1,
       raised   |-> (byReply = ValueError)]

\* The handler of the ranking variant for a text it accepted, given the reply
\* of the completion call and what the detector says of the user's text
\* (byUser) and of the reply (byReply).  raised tells that a detector call
\* raised and ended the run.
FlightTurnResult(user_text, reply, byUser, byReply) ==
  LET withUser == Append(messages, Msg("user", user_text))
      logUser  == Append(log, Msg("user", user_text))
  IN  IF byUser = ValueError
        THEN [messages |-> withUser, log |-> logUser, finished |-> finished,
              finished_reason |-> finished_reason, calls |-> calls, raised |-> TRUE]
      ELSE IF byUser = PyTrue
        THEN [messages |-> Append(withUser, Msg("assistant", done_msg)),
              log      |-> Append(logUser, Msg("assistant", done_msg)),
              finished |-> TRUE, finished_reason |-> "completed",
              calls    |-> calls, raised |-> FALSE]
      ELSE [messages |-> Append(withUser, Msg("assistant", reply)),
            log      |-> Append(logUser, Msg("assistant", reply)),
            finished |-> (IF byReply = PyTrue THEN TRUE ELSE finished),
            finished_reason |-> (IF byReply = PyTrue THEN "completed" ELSE finished_reason),
            calls    |-> calls + 1,
            raised   |-> (byReply = ValueError)]

FlightHandler(user_text, outcome) ==
  FlightTurnResult(user_text, ReplyOf(outcome),
                   detect_task_completed(user_text, TRUE),
                   detect_task_completed(ReplyOf(outcome), FALSE))

\* One run of the ranking variant in which the user tries to submit u.
FlightRun(u, outcome) ==
  /\ app = "flight"
  /\ last # "blocked"
  /\ LET checked        == FlightTimeCheck(finished, finished_reason)
         input_disabled == InputDisabled(api_key, checked.finished)
     IN  \E user_text \in ChatInput(u, WidgetDisabled, input_disabled) :
            IF user_text = NoInput \/ input_disabled
              THEN /\ finished' = checked.finished
                   /\ finished_reason' = checked.finished_reason
                   /\ last' = IF u = NoInput THEN last
                              ELSE IF WidgetDisabled THEN "blocked" ELSE "expired"
                   /\ UNCHANGED <<messages, log, calls, turns>>
              ELSE /\ turns < MaxTurns
                   /\ \E out \in {FlightHandler(user_text, outcome)} :
                        \E rerun \in {FlightTimeCheck(out.finished, out.finished_reason)} :
                          /\ messages' = out.messages
                          /\ log' = out.log
                          /\ calls' = out.calls
                          /\ finished' = IF out.raised THEN out.finished ELSE rerun.finished
                          /\ finished_reason' = IF out.raised THEN out.finished_reason
                                                ELSE rerun.finished_reason
                          /\ last' = IF out.raised THEN "raised" ELSE "handled"
                   /\ turns' = turns + 1
  /\ UNCHANGED <<detectorIdle, rot, deviated, app, stage, matched_items, time_up, elapsed,
                 pending_selection, api_key>>

confirm_msg(selected) == <<"confirm_msg">> \o SubSeq(selected, 1, Min({2, Len(selected)}))
\* Variant of confirmed_msg that names every letter of the selection: C26
\* depends on the slice pending[:2].
ConfirmedAllLetters(selected) == <<"confirmed">> \o selected

confirmed_msg(selected) == <<"confirmed">> \o SubSeq(selected, 1, Min({2, Len(selected)}))

\* Variant of HRHandler that ends the session on a detection: C6 depends on
\* the detection turn leaving finished alone.
HRHandlerEndsOnDetection(user_text, outcome) ==
  LET withUser == Append(messages, Msg("user", user_text))
      logUser  == Append(log, Msg("user", user_text))
      selected == detect_hr_final_selection(user_text)
      reply    == ReplyOf(outcome)
  IN  IF Len(selected) >= 2
        THEN [messages |-> Append(withUser, Msg("assistant", confirm_msg(selected))),
              log      |-> Append(logUser, Msg("assistant", confirm_msg(selected))),
              pending_selection |-> selected, calls |-> calls,
              finished |-> TRUE, finished_reason |-> "completed"]
        ELSE [messages |-> Append(withUser, Msg("assistant", reply)),
              log      |-> Append(logUser, Msg("assistant", reply)),
              pending_selection |-> pending_selection, calls |-> calls + 1,
              finished |-> finished, finished_reason |-> finished_reason]

\* The handler of the shortlist variant for a text it accepted.
HRHandler(user_text, outcome) ==
  LET withUser == Append(messages, Msg("user", user_text))
      logUser  == Append(log, Msg("user", user_text))
      selected == detect_hr_final_selection(user_text)
      reply    == ReplyOf(outcome)
  IN  IF Len(selected) >= 2
        THEN [messages |-> Append(withUser, Msg("assistant", confirm_msg(selected))),
              log      |-> Append(logUser, Msg("assistant", confirm_msg(selected))),
              pending_selection |-> selected, calls |-> calls,
              finished |-> finished, finished_reason |-> finished_reason]
        ELSE [messages |-> Append(withUser, Msg("assistant", reply)),
              log      |-> Append(logUser, Msg("assistant", reply)),
              pending_selection |-> pending_selection, calls |-> calls + 1,
              finished |-> finished, finished_reason |-> finished_reason]

\* One run of the shortlist variant in which the user tries to submit u and
\* presses no button.
HRRun(u, outcome) ==
  /\ app = "hr"
  /\ last # "blocked"
  /\ LET input_disabled == InputDisabled(api_key, finished)
     IN  \E user_text \in ChatInput(u, WidgetDisabled, input_disabled) :
            IF user_text = NoInput \/ input_disabled
              THEN /\ last' = "blocked"
                   /\ UNCHANGED <<messages, log, calls, turns, finished, finished_reason,
                                  pending_selection>>
              ELSE /\ turns < MaxTurns
                   /\ LET out == HRHandler(user_text, outcome)
                      IN  /\ messages' = out.messages
                          /\ log' = out.log
                          /\ calls' = out.calls
                          /\ pending_selection' = out.pending_selection
                          /\ finished' = out.finished
                          /\ finished_reason' = out.finished_reason
                   /\ turns' = turns + 1
                   /\ last' = "handled"
  /\ UNCHANGED <<detectorIdle, rot, deviated, app, stage, matched_items, time_up, elapsed,
                 api_key>>

\* Variant of HRConfirm that does not log the confirmation: C25 depends on
\* the log_message call after every append.
HRConfirmUnlogged ==
  /\ app = "hr"
  /\ pending_selection # << >>
  /\ finished' = TRUE
  /\ finished_reason' = "completed"
  /\ messages' = Append(messages, Msg("assistant", confirmed_msg(pending_selection)))
  /\ log' = log
  /\ pending_selection' = << >>
  /\ last' = "confirm"
  /\ UNCHANGED <<detectorIdle, rot, deviated, app, stage, matched_items, time_up, elapsed,
                 calls, turns, api_key>>

\* The run in which the user presses the confirm button.
HRConfirm ==
  /\ app = "hr"
  /\ pending_selection # << >>
  /\ finished' = TRUE
  /\ finished_reason' = "completed"
  /\ messages' = Append(messages, Msg("assistant", confirmed_msg(pending_selection)))
  /\ log' = Append(log, Msg("assistant", confirmed_msg(pending_selection)))
  /\ pending_selection' = << >>
  /\ last' = "confirm"
  /\ UNCHANGED <<detectorIdle, rot, deviated, app, stage, matched_items, time_up, elapsed,
                 calls, turns, api_key>>

\* The run in which the user presses the cancel button.
HRCancel(outcome) ==
  /\ app = "hr"
  /\ pending_selection # << >>
  /\ pending_selection' = << >>
  /\ calls' = calls + 1
  /\ messages' = Append(messages, Msg("assistant", ReplyOf(outcome)))
  /\ log' = Append(log, Msg("assistant", ReplyOf(outcome)))
  /\ last' = "cancel"
  /\ UNCHANGED <<detectorIdle, rot, deviated, app, stage, matched_items, time_up, elapsed,
                 finished, finished_reason, turns, api_key>>

\* time passes between two runs
Tick ==
  /\ app \in {"assistant", "flight"}
  /\ elapsed < TimeBudget
  /\ elapsed' = elapsed + TickSeconds
  /\ UNCHANGED <<detectorIdle, rot, deviated, app, messages, log, stage, matched_items,
                 time_up, finished, finished_reason, pending_selection, calls, turns,
                 api_key, last>>

Init ==
  /\ input = << >> /\ segs = << >> /\ layout = "none" /\ user_flag = FALSE
  /\ pc = "session" /\ verdict = << >> /\ deviated = FALSE
  /\ app \in Apps
  /\ rot \in (IF app \in StepApps THEN 0..MaxUserRot ELSE {0})
  /\ api_key \in (IF app \in LLMApps THEN BOOLEAN ELSE {TRUE})
  /\ messages = CASE app \in StepApps -> <<Msg("assistant", greeting_and_prompt)>>
                  [] app = "flight"   -> <<Msg("system", PROMPT_SYSTEM),
                                           Msg("assistant", ASSISTANT_GREETING)>>
                  [] app = "hr"       -> <<Msg("system", PROMPT_SYSTEM),
                                           Msg("system", PROMPT_SYSTEM_2),
                                           Msg("system", PROMPT_SYSTEM_3)>>
  /\ log = IF app = "flight" THEN <<Msg("assistant", ASSISTANT_GREETING)>> ELSE << >>
  /\ stage = 0 /\ matched_items = << >> /\ time_up = FALSE /\ elapsed = 0
  /\ finished = FALSE /\ finished_reason = NoneVal /\ pending_selection = << >>
  /\ calls = 0 /\ turns = 0 /\ last = "none"

AssistantTurn == \E u \in StepInputs \cup {NoInput} : AssistantRun(u)
PartnerTurn   == \E u \in StepInputs : PartnerRun(u)
FlightTurn    == \E u \in FlightInputs \cup {NoInput}, outcome \in ServiceOutcomes : FlightRun(u, outcome)
HRTurn        == \E u \in HRInputs, outcome \in ShortOutcomes : HRRun(u, outcome)
HRCancelTurn  == \E outcome \in ShortOutcomes : HRCancel(outcome)

Next ==
  \/ AssistantTurn
  \/ PartnerTurn
  \/ FlightTurn
  \/ HRTurn
  \/ HRConfirm
  \/ HRCancelTurn
  \/ Tick

Spec == Init /\ [][Next]_vars

\* ------------------------------------------------------------------------
\* Claims on the sessions
\* ------------------------------------------------------------------------

Terminated ==
  IF app \in StepApps THEN stage = 99 \/ time_up ELSE finished

\* C1: once a session is terminated (stage = 99 or time_up in the step-wise
\* variants, finished in the LLM-backed variants) no run changes the messages,
\* the stage, finished, finished_reason, the claimed items or the log, and no
\* run calls the completion service: an input submitted then is ignored.
C1_TerminatedIgnoresInput ==
  [][Terminated =>
       UNCHANGED <<messages, stage, finished, finished_reason, matched_items, log, calls>>]_vars

\* C1 witness: the user tried to submit a text after the fifth item had ended
\* the session of the assistant variant.
C1_Witness ==
  /\ app = "assistant" /\ stage = 99 /\ Len(matched_items) = 5
  /\ last = "blocked"

IsDetectionPrompt(m) == m.role = "assistant" /\ m.content[1] = "confirm_msg"
IsConfirmation(m)    == m.role = "assistant" /\ m.content[1] = "confirmed"

\* C6: in the shortlist variant a turn that detects a shortlist records the
\* pending selection and leaves finished alone; finished changes only from
\* false to true, in the run of the confirm button, with a pending selection
\* present; every finished session holds a confirmation after a detection
\* prompt.
C6_ConfirmRequired ==
  [][app = "hr" =>
       /\ finished' # finished =>
             /\ ~finished /\ pending_selection # << >>
             /\ last' = "confirm" /\ finished_reason' = "completed"
       /\ (turns' # turns /\ IsDetectionPrompt(messages'[Len(messages')])) =>
             /\ finished' = finished
             /\ pending_selection' = detect_hr_final_selection(messages'[Len(messages') - 1].content)
             /\ Len(pending_selection') >= 2
       /\ finished' =>
             /\ finished_reason' = "completed"
             /\ \E i, j \in 1..Len(messages') :
                   i < j /\ IsDetectionPrompt(messages'[i]) /\ IsConfirmation(messages'[j])]_vars

\* C6 witness: a session of the shortlist variant ended by the confirm button
\* after a detection and a further turn of chat.
C6_Witness ==
  /\ app = "hr" /\ finished /\ finished_reason = "completed"
  /\ last = "confirm" /\ calls >= 1

\* the time budget of a variant with a timer is spent
BudgetSpent == app \in {"assistant", "flight"} /\ elapsed >= TimeBudget

\* C13: a run that starts with the time budget spent leaves the session
\* terminated and appends nothing to the conversation, claims no item and makes
\* no completion call: a text submitted after the budget expired is dropped.
C13_Original ==
  [][BudgetSpent =>
       /\ Terminated'
       /\ messages' = messages
       /\ matched_items' = matched_items
       /\ calls' = calls]_vars

\* the lifecycle state of a session: 0 AwaitingStart, 1 Collecting, 2 Terminated
Lifecycle ==
  IF Terminated THEN 2
  ELSE IF app \in StepApps /\ stage = 0 THEN 0
  ELSE 1

\* C14: no step moves a session to an earlier lifecycle state or to a lower
\* stage number; a terminated session stays terminated, and what records the
\* termination (stage, time_up, finished, finished_reason) is written once.
C14_ForwardOnly ==
  [][/\ Lifecycle' >= Lifecycle
     /\ stage' >= stage
     /\ finished => finished'
     /\ time_up => time_up'
     /\ Terminated => UNCHANGED <<stage, time_up, finished, finished_reason>>]_vars

\* C14 witness: a session of the ranking variant ended by a complete ranking
\* outlived its time budget and went through a further run, and the reason is
\* still 'completed'.
C14_Witness ==
  /\ app = "flight" /\ finished /\ finished_reason = "completed"
  /\ elapsed >= TimeBudget
  /\ last = "blocked"

\* the last message of the conversation
LastMessage == messages[Len(messages)]

\* the run made a completion call and appended its reply
ReplyAppended ==
  /\ app = "flight"
  /\ calls' = calls + 1
  /\ Len(messages') = Len(messages) + 2
  /\ LastMessage'.role = "assistant"

\* the 10 items numbered 1 to 10, one entry per line, with decimal or with
\* circled numerals
NumberedRankings == {RankingFrom("dot", 1), RankingFrom("circled", 1)}

\* C15: in the ranking variant a run that appends a reply of the completion
\* service which is a complete numbered ranking ends with finished = true and
\* finished_reason = 'completed'.
C15_Original ==
  [][(ReplyAppended /\ LastMessage'.content \in NumberedRankings) =>
        (finished' /\ finished_reason' = "completed")]_vars

\* the run accepted a text of the user of the ranking variant
UserTextAccepted ==
  /\ app = "flight"
  /\ Len(messages') > Len(messages)
  /\ messages'[Len(messages) + 1].role = "user"

\* C16: in the ranking variant a run that accepts a user text which
\* detect_task_completed(text, by_user=True) judges complete ends with
\* finished = true and finished_reason = 'completed', appends the fixed closing
\* message after the user's text and nothing else, and makes no completion
\* call; no run of a finished session makes a completion call.
C16_UserCompletionEndsSession ==
  [][/\ (UserTextAccepted /\
           detect_task_completed(messages'[Len(messages) + 1].content, TRUE) = PyTrue) =>
          /\ finished' /\ finished_reason' = "completed"
          /\ messages' = messages \o <<messages'[Len(messages) + 1], Msg("assistant", done_msg)>>
          /\ calls' = calls
     /\ (app = "flight" /\ finished) => calls' = calls]_vars

\* C16 witness: the first text of the user listed the 10 items without
\* numbers, the session ended with the closing message and without a
\* completion call, and a later text was not taken.
C16_Witness ==
  /\ app = "flight" /\ finished /\ finished_reason = "completed"
  /\ calls = 0
  /\ Len(messages) = 4
  /\ messages[3] = Msg("user", RankingFrom("mentions", 1))
  /\ LastMessage = Msg("assistant", done_msg)
  /\ last = "blocked"

\* the run took a text of the user of a step-wise variant in stage 0
StageZeroText ==
  /\ app \in StepApps
  /\ stage = 0
  /\ Len(messages') > Len(messages)
  /\ messages'[Len(messages) + 1].role = "user"

\* the texts of StepInputs that are 'ok' once stripped and lower-cased
OkTexts == {<<"o", "k">>, <<" ", "O", "K", "\n">>}

MaxCalls == 3

RecallTexts ==
  { ChatText,
    RankingFrom("dot", 1),
    RankingFrom("mentions", 1),
    Canonical(RotItem(0, 2)),
    Canonical(RotItem(0, 3)) \o <<"fcomma">> \o Canonical(RotItem(0, 1)),
    <<"xuan", "A", "dun", "B">> }

\* what the four detectors return for text t and by_user = b
DetectorResults(t, b) ==
  [ranked    |-> _parse_ranked_items(t),
   unordered |-> _parse_unordered_items_in_order(t),
   completed |-> detect_task_completed(t, b),
   selection |-> detect_hr_final_selection(t)]

RecallInit ==
  /\ input = << >> /\ segs = << >> /\ deviated = FALSE
  /\ layout = "none" /\ rot = 0
  /\ user_flag = FALSE /\ pc = "idle"
  /\ verdict = [ranked |-> NoVerdict.ranked, unordered |-> << >>, completed |-> NoneVal,
                selection |-> << >>]
  /\ IdleSession

\* one call of each detector on text t, with by_user = b
CallDetectors ==
  /\ Len(segs) < MaxCalls
  /\ \E t \in RecallTexts, b \in BOOLEAN :
       \E out \in {DetectorResults(t, b)} :
         /\ input' = t
         /\ user_flag' = b
         /\ verdict' = out
         /\ segs' = Append(segs, [text |-> t, by_user |-> b, result |-> out])
  /\ pc' = "called"
  /\ UNCHANGED <<layout, rot, deviated, sessionVars>>

RecallNext == CallDetectors

SpecRecall == RecallInit /\ [][RecallNext]_vars

CollectingText ==
  /\ app \in StepApps
  /\ stage \notin {0, 99}
  /\ ~BudgetSpent
  /\ Len(messages') > Len(messages)
  /\ messages'[Len(messages) + 1].role = "user"

\* the listed items a text names as whole words, once stripped and lower-cased
NamedItems(content) ==
  {item_alias[j].official :
     j \in {k \in 1..NumStepItems : WordSearch(item_alias[k].pat, Lower(Strip(content)))}}

C23_Original ==
  [][CollectingText =>
       LET sent  == messages'[Len(messages) + 1]
           fresh == {k \in NamedItems(sent.content) : ~InSeq(k, matched_items)}
       IN  fresh # {} => \E k \in fresh : matched_items' = Append(matched_items, k)]_vars

\* C24: in the assistant variant stage is one of 0, 1, 2, 3, 4, 5 and 99, and
\* a stage n of 1..5 means that n items have been claimed.
C24_Original ==
  app = "assistant" =>
     /\ stage \in (0..5) \cup {99}
     /\ stage \in 1..5 => Len(matched_items) = stage

IsChatMessage(m) == m.role # "system"

ShortlistTextAccepted ==
  /\ app = "hr"
  /\ turns' # turns
  /\ messages'[Len(messages) + 1].role = "user"

\* the position of the last detection prompt of a conversation (0 if none)
LatestDetection(msgs) ==
  LET at == {i \in 1..Len(msgs) : IsDetectionPrompt(msgs[i])}
  IN  IF at = {} THEN 0 ELSE Max(at)

\* C26: in the shortlist variant a pending selection is what the detector
\* returned for the user's text before the latest detection prompt; a turn that
\* detects nothing keeps it, a turn that detects a selection replaces it; the
\* step that clears it without finishing (cancel) leaves finished false and
\* calls the completion service; the step that sets finished (confirm) clears
\* it and appends the confirmation naming exactly its first two letters.
C26_PendingSelection ==
  [][app = "hr" =>
       /\ pending_selection' # << >> =>
             /\ LatestDetection(messages') > 1
             /\ pending_selection' =
                  detect_hr_final_selection(messages'[LatestDetection(messages') - 1].content)
       /\ ShortlistTextAccepted =>
             LET selected == detect_hr_final_selection(messages'[Len(messages) + 1].content)
             IN  pending_selection' = IF Len(selected) >= 2 THEN selected
                                      ELSE pending_selection
       /\ (pending_selection # << >> /\ pending_selection' = << >> /\ ~finished') =>
             /\ ~finished /\ calls' = calls + 1 /\ Len(messages') = Len(messages) + 1
       /\ (finished' /\ ~finished) =>
             /\ Len(pending_selection) >= 2
             /\ pending_selection' = << >>
             /\ messages' = Append(messages,
                   Msg("assistant", <<"confirmed", pending_selection[1], pending_selection[2]>>))
  ]_vars

\* C26 witness: a selection of three letters was detected, a later text
\* replaced it by another selection, and the confirm button finalised the
\* first two letters of the later one.
C26_Witness ==
  /\ app = "hr" /\ finished /\ pending_selection = << >>
  /\ Len(messages) = 8
  /\ messages[5] = Msg("assistant", <<"confirm_msg", "C", "B">>)
  /\ IsDetectionPrompt(messages[7])
  /\ messages[8] = Msg("assistant", <<"confirmed">> \o Tail(messages[7].content))
  /\ messages[8] # Msg("assistant", <<"confirmed", "C", "B">>)

\* C27: in the step-wise variants the claimed items hold no item twice, at
\* most 5 entries and only listed items, and stage = 99 holds exactly when all
\* 5 items are claimed; in the assistant variant time_up and stage = 99 never
\* hold together.
C27_ClaimedItems ==
  app \in StepApps =>
     /\ \A i, j \in 1..Len(matched_items) : matched_items[i] = matched_items[j] => i = j
     /\ Len(matched_items) <= NumStepItems
     /\ \A i \in 1..Len(matched_items) :
           \E j \in 1..NumStepItems : matched_items[i] = item_alias[j].official
     /\ stage = 99 <=> Len(matched_items) = NumStepItems
     /\ app = "assistant" => ~(time_up /\ stage = 99)

\* C27 witness: a session of the partner variant claimed the 5 items in the
\* rotated order and ended.
C27_Witness ==
  /\ app = "partner" /\ rot = 1 /\ stage = 99
  /\ Len(matched_items) = NumStepItems
  /\ matched_items[1] = item_alias[2].official
  /\ messages[Len(messages)] = Msg("assistant", closing)

\* finished and finished_reason agree
ReasonRecorded ==
  /\ finished <=> finished_reason # NoneVal
  /\ finished_reason \in {NoneVal, "time", "completed"}

\* C28: in the LLM-backed variants finished is true exactly when
\* finished_reason is set, the reason is 'time' or 'completed', and no step
\* changes a reason that is set.
C28_ReasonSetOnce ==
  [][(app \in LLMApps) =>
       /\ ReasonRecorded
       /\ ReasonRecorded'
       /\ finished_reason # NoneVal => finished_reason' = finished_reason
  ]_vars

\* C28 witness: a session of the ranking variant ran out of time after a turn
\* of chat, and a text sent afterwards was not taken.
C28_Witness ==
  /\ app = "flight" /\ finished /\ finished_reason = "time"
  /\ Len(messages) >= 4 /\ calls >= 1
  /\ last = "blocked"

\* the run accepted a text of the user of an LLM-backed variant
TurnAccepted ==
  /\ app \in LLMApps
  /\ Len(messages') > Len(messages)
  /\ messages'[Len(messages) + 1].role = "user"

\* the fixed texts that stand for a failed or empty completion
FailureReplies == {<<k>> : k \in ErrorCategories} \cup {EmptyReplyMsg}

\* C29: in the LLM-backed variants a run that accepts a text appends the
\* user's message and after it exactly one assistant message that is not
\* empty; when that message stands for a failed or empty completion the
\* session is not terminated.
C29_Original ==
  [][TurnAccepted =>
       /\ Len(messages') = Len(messages) + 2
       /\ LastMessage'.role = "assistant"
       /\ LastMessage'.content # << >>
       /\ SubSeq(messages', 1, Len(messages)) = messages
       /\ LastMessage'.content \in FailureReplies => (~finished' /\ finished_reason' = NoneVal)
  ]_vars

\* ------------------------------------------------------------------------
\* The scan loop of the unordered-mention parser, one iteration per step
\*
\* input is the text s, verdict holds the loop's variables: the scan index i
\* (1-based), the list ordered and the number of iterations made.
\* ------------------------------------------------------------------------

ScanTexts ==
  {RankingFrom(lay, k) : lay \in {"mentions", "dot", "dun"}, k \in 1..FullCount}
    \cup { << >>, ChatText,
           <<"x">> \o Canonical(RotItem(0, 3)),
           Canonical(RotItem(0, 3)) \o <<"x", " ">> \o ShortAlias(RotItem(0, 3)),
           MidAlias(RotItem(0, 5)) \o <<"x", "fcomma">> \o Canonical(RotItem(0, 1)),
           RankingFrom("mentions", 1) \o <<"fcomma">> \o Canonical(RotItem(0, 1)),
           Canonical(RotItem(0, 2)) \o <<"dun">> \o ShortAlias(RotItem(0, 2))
             \o <<"dun">> \o Canonical(RotItem(0, 2)) }

\* Variant of NextIndex that resumes at the start of a match with an invalid
\* boundary: C30 depends on the "+ 1".
NextIndexAtStart(start, end, bounded) == IF bounded THEN end ELSE start

\* i = end on a valid boundary, i = start + 1 otherwise
NextIndex(start, end, bounded) == IF bounded THEN end ELSE start + 1

ScanInit ==
  /\ input \in ScanTexts
  /\ segs = << >> /\ deviated = FALSE /\ layout = "none" /\ rot = 0
  /\ user_flag = TRUE /\ pc = "scan"
  /\ verdict = [i |-> 1, ordered |-> << >>, iterations |-> 0]
  /\ IdleSession

\* one pass through the body of `while i < len(s)`
ScanIteration ==
  /\ pc = "scan"
  /\ verdict.i <= Len(input)
  /\ \E start \in {SearchAlias(input, verdict.i)} :
       IF start = 0
           THEN /\ pc' = "done"
                /\ verdict' = [verdict EXCEPT !.iterations = @ + 1]
           ELSE \E alias \in {AliasAt(input, start)} :
                LET end     == start + Len(alias)
                    prev_ok == (start = 1) \/ (input[start - 1] \in SEPS)
                    next_ok == (end = Len(input) + 1) \/ (input[end] \in SEPS)
                    key     == Alias2Key(alias)
                    fresh   == prev_ok /\ next_ok /\ ~InSeq(key, verdict.ordered)
                    grown   == IF fresh THEN Append(verdict.ordered, key) ELSE verdict.ordered
                IN  IF fresh /\ Len(grown) = FullCount
                      THEN /\ pc' = "done"
                           /\ verdict' = [verdict EXCEPT !.ordered = grown,
                                                         !.iterations = @ + 1]
                      ELSE /\ pc' = "scan"
                           /\ verdict' = [i          |-> NextIndex(start, end, prev_ok /\ next_ok),
                                          ordered    |-> grown,
                                          iterations |-> verdict.iterations + 1]
  /\ UNCHANGED <<input, segs, layout, rot, deviated, user_flag, sessionVars>>

\* the loop condition is false
ScanExit ==
  /\ pc = "scan"
  /\ verdict.i > Len(input)
  /\ pc' = "done"
  /\ UNCHANGED <<input, segs, layout, rot, deviated, user_flag, verdict, sessionVars>>

ScanNext == ScanIteration \/ ScanExit

SpecScan == ScanInit /\ [][ScanNext]_vars /\ WF_vars(ScanNext)

\* C30: every iteration of the scan loop that does not leave the loop moves
\* the scan index forward (to the end of the match on a valid boundary, to one
\* past its start otherwise); the loop makes at most len(text) iterations, so
\* it ends; the list never holds an item twice, and the list at the end is
\* what _parse_unordered_items_in_order returns.
C30_ScanTerminates ==
  /\ [][/\ pc' = "scan" => verdict'.i > verdict.i
        /\ verdict'.iterations <= Len(input)
        /\ \A a, b \in 1..Len(verdict'.ordered) :
              verdict'.ordered[a] = verdict'.ordered[b] => a = b
        /\ pc' = "done" => verdict'.ordered = _parse_unordered_items_in_order(input)]_vars
  /\ <>(pc = "done")

\* C30 witness: the loop passed a match with an invalid boundary and ended
\* with one item after three iterations.
C30_Witness ==
  /\ pc = "done"
  /\ input = Canonical(RotItem(0, 3)) \o <<"x", " ">> \o ShortAlias(RotItem(0, 3))
  /\ verdict.iterations = 3
  /\ Len(verdict.ordered) = 1

=============================================================================
